---- MODULE Spec2Model ----
(***************************************************************************)
(* Model of the HLTV player-nickname scrapers.                             *)
(*                                                                         *)
(*   main.py          bounded driver: get_lastnumber_for_letter       *)
(*                    estimates the page count of a letter, then           *)
(*                    scrape_all_players fetches pages 1..M                *)
(*   improved_main.py adaptive driver: a queue of URLs and a visited set   *)
(*   smart_scraper.py per-letter link following with stop heuristics       *)
(*                                                                         *)
(* The site is the environment.  In the bounded driver it is a fixed       *)
(* table (letter -> sequence of documents); in the other two drivers each  *)
(* fetch draws the document the site answers with.                         *)
(***************************************************************************)
EXTENDS Integers, Sequences, FiniteSets, Bags, TLC

(***************************************************************************)
(* Bounds of the model.                                                    *)
(***************************************************************************)
NumLetters == 2        \* letters of the alphabet that a run iterates over
MaxK == 31             \* longest contiguous letter offered to the estimator
PatPages == 6          \* pages of the letters with arbitrary gaps
MaxLinkPages == 1      \* offsets (in pages) the pagination links point at
MaxLinks == 1          \* pagination links with an offset on one page
MaxCalls == 2          \* calls of the pure functions in one behaviour
MaxProbe == 8          \* endless letters: the pages after this one are counted
                       \*   modulo 2

(***************************************************************************)
(* Program constants.                                                      *)
(***************************************************************************)
PLAYERS_PER_PAGE == 52
test_increments == <<1, 5, 10, 20, 50, 100>>
MainMaxRetries == 2
MainBaseDelay == 2
ConfirmSpan == 5
ImprovedMaxRetries == 3
ImprovedBaseDelay == 3
max_pages_per_letter == 20
SmartMaxRetries == 3
SmartBaseDelay == 2
max_pages == 50
WeakCap == 20

Alphabet ==
  <<"A", "B", "C", "D", "E", "F", "G", "H", "I", "J", "K", "L", "M",
    "N", "O", "P", "Q", "R", "S", "T", "U", "V", "W", "X", "Y", "Z">>

Min(a, b) == IF a < b THEN a ELSE b

Letters == SubSeq(Alphabet, 1, Min(NumLetters, Len(Alphabet)))

LetterSet == {Letters[i] : i \in 1..Len(Letters)}

Range(s) == {s[i] : i \in 1..Len(s)}

(***************************************************************************)
(* Nicknames.  NameOrder lists the universe of nickname strings in the     *)
(* ascending order Python's sorted() gives them.  FreshNames are the       *)
(* nicknames of a letter every page of which holds a player of its own.    *)
(***************************************************************************)
FreshNames ==
  <<"p01", "p02", "p03", "p04", "p05", "p06", "p07", "p08", "p09", "p10",
    "p11", "p12", "p13", "p14", "p15", "p16", "p17", "p18", "p19", "p20",
    "p21", "p22", "p23", "p24", "p25", "p26", "p27", "p28", "p29", "p30",
    "p31", "p32", "p33", "p34", "p35", "p36", "p37", "p38", "p39", "p40",
    "p41", "p42", "p43", "p44", "p45", "p46", "p47", "p48", "p49", "p50",
    "p51">>

NameOrder == <<"bar", "baz", "foo", "foo bar">> \o FreshNames \o <<"zed">>

Names == Range(NameOrder)

(***************************************************************************)
(* Documents.  sel is the index of the first selector of                   *)
(* nickname_selectors that matches an element (0: none matches), texts the *)
(* stripped texts of the elements it matches, links the stripped texts of  *)
(* the <a href="/player/<id>"> anchors.                                    *)
(***************************************************************************)
Doc(sel, texts, links) == [sel |-> sel, texts |-> texts, links |-> links]

EmptyDoc == Doc(0, <<>>, <<>>)

Page(texts) == Doc(1, texts, <<>>)

NamePage(p) == Page(<<NameOrder[((p - 1) % 3) + 1]>>)

Contig(k) == [p \in 1..k |-> NamePage(p)]

PatternSite(P, n) == [p \in 1..n |-> IF p \in P THEN NamePage(p) ELSE EmptyDoc]

ScenarioA == <<Page(<<"foo", "bar">>), Page(<<"baz">>), Page(<<"foo">>)>>

DriftSite == <<Doc(2, <<"zed">>, <<>>), Page(<<"bar">>)>>

BlankSite == <<Page(<<"">>), Doc(0, <<>>, <<"zed", "zed", "">>)>>

EstimatorSites ==
  {Contig(k) : k \in 0..MaxK} \cup {PatternSite(P, PatPages) : P \in SUBSET (1..PatPages)}

BoundedSites ==
  {<<>>, ScenarioA, DriftSite, BlankSite, PatternSite({1, 2, 3, 5}, 5)}

\* the letters after the first two hold no page or two pages
TailSites == {<<>>, Contig(2)}

(***************************************************************************)
(* URLs: <base>/<letter> (offset = NoOffset) or <base>/<letter>?offset=n.  *)
(***************************************************************************)
NoOffset == -1

Url(letter, offset) == [letter |-> letter, offset |-> offset]

\* the page of the letter that the site serves for an offset
PageOfOffset(offset) ==
  IF offset = NoOffset THEN 1 ELSE (offset \div PLAYERS_PER_PAGE) + 1

BaseUrl == Url("", NoOffset)

NoUrl == Url("", -2)

DocAt(pages, p) == IF p \in 1..Len(pages) THEN pages[p] ELSE EmptyDoc

(***************************************************************************)
(* request_with_retry.  A script gives the outcome of each HTTP attempt:   *)
(* "ok" (a 2xx response), "404" (HTTP 404), "error" (timeout, connection   *)
(* error, other HTTP error status).                                        *)
(***************************************************************************)
Outcomes == {"ok", "404", "error"}

Scripts(n) ==
  {[i \in 1..n |-> IF i <= k THEN e ELSE o] :
     k \in 0..(n - 1), e \in {"404", "error"}, o \in Outcomes}

RECURSIVE request_attempts(_, _, _, _, _)
request_attempts(script, attempt, max_retries, delay, slept) ==
  IF script[attempt + 1] = "ok"
  THEN [status |-> "ok", attempts |-> attempt + 1, slept |-> slept]
  ELSE IF attempt < max_retries
       THEN request_attempts(script, attempt + 1, max_retries, delay,
                             Append(slept, (attempt + 1) * delay))
       ELSE [status |-> "failed", attempts |-> attempt + 1, slept |-> slept]

request_with_retryMutant(script) ==
  LET r == request_attempts(script, 0, MainMaxRetries, MainBaseDelay, <<>>)
  IN IF r.status = "ok" THEN r
     ELSE [r EXCEPT !.slept = Append(r.slept, r.attempts * MainBaseDelay)]

\* main.py: raise_for_status turns every HTTP error status, 404 included,
\* into a RequestException, which is retried; the last one is re-raised
request_with_retry(script) ==
  request_attempts(script, 0, MainMaxRetries, MainBaseDelay, <<>>)

(***************************************************************************)
(* Pure helpers of the bounded driver.                                     *)
(***************************************************************************)
\* soup.select('.players-archive-nickname.text-ellipsis') is not empty
HasNicknameMutant(doc) == doc.sel = 1 /\ Len(doc.texts) > 1

HasNickname(doc) == doc.sel = 1

\* if not nickname_elements: return 0
NoPlayersMutant(doc) == FALSE

NoPlayers(doc) == ~HasNickname(doc)

TestPage(page_to_test, increment) == page_to_test + increment

TestOffsetMutant(test_page) == test_page * PLAYERS_PER_PAGE

TestOffset(test_page) == (test_page - 1) * PLAYERS_PER_PAGE

\* range(max_page + 1, max_page + 6), evaluated once when the scan starts
ConfirmLastMutant(max_page) == max_page + ConfirmSpan + 1

ConfirmLast(max_page) == max_page + ConfirmSpan

\* the offset parameter is appended for page 1 as well
PageUrlMutant(letter, page_num) == Url(letter, (page_num - 1) * PLAYERS_PER_PAGE)

PageUrl(letter, page_num) ==
  IF page_num = 1 THEN Url(letter, NoOffset)
  ELSE Url(letter, (page_num - 1) * PLAYERS_PER_PAGE)

RECURSIVE AppendNew(_, _)
\* for link in links: if link_text and link_text not in nicknames: append
AppendNew(nicknames, links) ==
  IF links = <<>> THEN nicknames
  ELSE IF Head(links) # "" /\ Head(links) \notin Range(nicknames)
       THEN AppendNew(Append(nicknames, Head(links)), Tail(links))
       ELSE AppendNew(nicknames, Tail(links))

extract_player_nicknames_from_page(doc) ==
  LET nickname_elements == IF doc.sel \in 1..3 THEN doc.texts ELSE <<>>
      nicknames == SelectSeq(nickname_elements, LAMBDA t : t # "")
  IN IF nicknames # <<>> THEN nicknames
     ELSE AppendNew(<<>>, SubSeq(doc.links, 1, Min(PLAYERS_PER_PAGE, Len(doc.links))))

\* self.player_nicknames.update(page_nicknames)
UpdateMutant(player_set, page_nicknames) ==
  (player_set \cup Range(page_nicknames)) \ (player_set \cap Range(page_nicknames))

\* the set assigned from the page instead of updated with it
UpdateReplaceMutant(player_set, page_nicknames) == Range(page_nicknames)

Update(player_set, page_nicknames) == player_set \cup Range(page_nicknames)

\* sorted(list(self.player_nicknames))
SortedMutant(player_set) ==
  LET n == Len(NameOrder)
      descending == [i \in 1..n |-> NameOrder[n + 1 - i]]
  IN SelectSeq(descending, LAMBDA x : x \in player_set)

\* a list that loses the first nickname of the order
SortedLossyMutant(player_set) ==
  SelectSeq(NameOrder, LAMBDA n : n \in player_set /\ n # NameOrder[1])

Sorted(player_set) == SelectSeq(NameOrder, LAMBDA n : n \in player_set)

(***************************************************************************)
(* State.                                                                  *)
(***************************************************************************)
VARIABLES
  pc,                \* position of the running driver
  site,              \* the site: letter -> sequence of documents (pages 1..)
  letter_index,      \* position of the letter loop (1-based)
  max_page,          \* estimator: last page known to hold nicknames
  page_to_test,      \* estimator: page the next probe is measured from
  inc_idx,           \* estimator: position in test_increments
  additional_page,   \* estimator: page of the confirmation scan
  confirm_last,      \* estimator: last page of the confirmation range
  ret,               \* value returned by the estimator (max_page of the caller)
  page_num,          \* scrape_all_players: page being scraped
  player_nicknames,  \* the result set
  result,            \* the list a driver returns
  requested,         \* bag of the URLs passed to request_with_retry (in the
                     \*   smart driver: for the letter being crawled)
  failed,            \* number of request_with_retry calls that failed, capped at 1
  est_hist,          \* per letter: outcome of the first page, value returned
  agg_hist,          \* record of the additions to the result set
  urls_to_visit,     \* adaptive driver: queue of URLs
  visited_urls,      \* adaptive driver: set of URLs already processed
  processed_count,   \* adaptive driver: number of URLs processed
  dup_links,         \* adaptive driver: a link to a queued or visited URL was seen
  current_url,       \* smart driver: URL of the next page of the letter
  page_count,        \* smart driver: pages of the letter fetched so far
  added_count,       \* smart driver: nicknames the letter has added
  total_added,       \* smart driver: nicknames added over the run
  lead_new,          \* smart driver: leading pages of the letter that each
                     \*   added a new nickname
  trail_zero,        \* smart driver: pages fetched after those, as long as
                     \*   every one of them added nothing
  enqueued,          \* adaptive driver: bag of the URLs put into urls_to_visit
  skipped,           \* adaptive driver: the "already visited" skip was taken
  attempted,         \* letters whose first page was passed to request_with_retry
  failed_contrib,    \* nicknames that entered or left the result set in a step
                     \*   whose fetch failed
  endless,           \* letters whose pages never end: beyond the table of the
                     \*   site every page holds a nickname
  calls,             \* calls of the pure functions: function, input, output
  exit_code,         \* main(): the value returned, -1 while main() runs
  saved,             \* main(): number of calls of save_to_files
  reached_main,      \* main(): what reached the handlers of main()
  pauses,            \* what followed the last probe of the estimation of the
                     \*   letter and the last page fetch of the crawl loop:
                     \*   the rate-limiting sleep ("slept") or none ("unslept")
  scrape_log,        \* scrape_all_players: the URLs its page loop has requested
  last_page          \* scrape_single_letter_complete: what the last fetch of
                     \*   the letter gave: no page ("failed"), a page without
                     \*   ("empty") or with nicknames ("names"), the number
                     \*   of nicknames it added and the next link of the page

estVars == <<max_page, page_to_test, inc_idx, additional_page, confirm_last>>

adaptiveVars ==
  <<urls_to_visit, visited_urls, processed_count, dup_links, enqueued, skipped>>

smartVars ==
  <<current_url, page_count, added_count, total_added, lead_new, trail_zero, last_page>>

vars ==
  <<pc, site, letter_index, max_page, page_to_test, inc_idx, additional_page,
    confirm_last, ret, page_num, player_nicknames, result, requested, failed,
    est_hist, agg_hist, urls_to_visit, visited_urls, processed_count, dup_links,
    current_url, page_count, added_count, total_added, lead_new, trail_zero,
    enqueued, skipped, attempted, failed_contrib, endless, calls, exit_code,
    saved, reached_main, pauses, scrape_log, last_page>>

mainVars == <<exit_code, saved, reached_main>>

logVars == <<pauses, scrape_log>>

\* the site's kind, the record of the pure calls and the state of main():
\* no driver changes them
fixedVars == <<endless, calls, mainVars>>

letter == Letters[letter_index]

NoAgg == [seen |-> {}, last |-> <<>>, repeat |-> FALSE, added |-> 0, before |-> 0]

\* old_count = len(set); set.update(page); new_count = len(set):
\* added is new_count - old_count, repeat tells that the same sequence was
\* added earlier in the run
Added(agg, old_set, new_set, page_nicknames) ==
  [seen |-> agg.seen \cup {page_nicknames},
   last |-> page_nicknames,
   repeat |-> page_nicknames \in agg.seen,
   added |-> Cardinality(new_set) - Cardinality(old_set),
   before |-> Cardinality(old_set)]

\* the document the site holds for page p of letter l
SiteDoc(l, p) ==
  IF l \in endless /\ p > Len(site[l]) THEN NamePage(p) ELSE DocAt(site[l], p)

\* one call of request_with_retry of main.py and the document it yields
Fetch(url, script) ==
  LET r == request_with_retry(script)
  IN [ok |-> r.status = "ok",
      doc |-> IF r.status = "ok"
              THEN SiteDoc(url.letter, PageOfOffset(url.offset))
              ELSE EmptyDoc]

\* the outcomes request_with_retry has for url, over the scripts of the site
Fetches(url) == {Fetch(url, script) : script \in Scripts(MainMaxRetries + 1)}

\* main.py 250-262: the nicknames of the page, [] when the request raised
scrape_letter_pageMutant(f) ==
  IF f.ok THEN extract_player_nicknames_from_page(f.doc) ELSE <<"zed">>

scrape_letter_page(f) ==
  IF f.ok THEN extract_player_nicknames_from_page(f.doc) ELSE <<>>

\* On an endless letter all the pages after the table are alike, and the
\* page numbers the search goes through are unbounded.  The model keeps the
\* numbers up to MaxProbe and counts the pages after it modulo 2: page
\* MaxProbe + 1 is taken for page MaxProbe - 1, and so on; the requests of
\* the pages from MaxProbe on are recorded once.
Folded(l, p) == IF l \in endless /\ p > MaxProbe THEN MaxProbe - 1 ELSE p

Recorded(url) ==
  IF url.letter \in endless /\ PageOfOffset(url.offset) >= MaxProbe
     /\ url \in BagToSet(requested)
  THEN requested
  ELSE requested (+) SetToBag({url})

Logged(url, f) ==
  /\ requested' = Recorded(url)
  /\ failed' = IF f.ok THEN failed ELSE 1
  /\ attempted' = IF url.offset = NoOffset THEN attempted \cup {url.letter} ELSE attempted

\* what a step whose fetch failed did to the result set
Absorbed(ok, old_set, new_set) ==
  failed_contrib' =
    IF ok THEN failed_contrib
    ELSE failed_contrib \cup (new_set \ old_set) \cup (old_set \ new_set)

\* main.py 126-141 and 157-170: time.sleep(0.5) stands in the branch of the
\* non-empty page; the empty page and the exception leave the loop before it
ProbePause(found) == IF found THEN "slept" ELSE "unslept"

\* range(1, max_page + 1) of main.py 290: a page follows page_num
MorePagesMutant(p, last) == p < last - 1

MorePages(p, last) == p < last

EstReturns(value, first) ==
  /\ pc' = "est_return"
  /\ ret' = value
  /\ est_hist' = [est_hist EXCEPT ![letter] = [first |-> first, ret |-> value]]

(***************************************************************************)
(* get_lastnumber_for_letter (main.py 81-178).                        *)
(***************************************************************************)
\* lines 93-109 and the outer handler 175-178
EstFirstPage ==
  /\ pc = "est_first"
  /\ UNCHANGED <<adaptiveVars, smartVars, fixedVars>>
  /\ \E f \in Fetches(Url(letter, NoOffset)) :
       LET url == Url(letter, NoOffset)
       IN /\ Logged(url, f)
          /\ pauses' = [pauses EXCEPT !.probe = "first"]
          /\ UNCHANGED scrape_log
          /\ IF ~f.ok
             THEN EstReturns(1, "failed") /\ UNCHANGED estVars
             ELSE IF NoPlayers(f.doc)
                  THEN EstReturns(0, "empty") /\ UNCHANGED estVars
                  ELSE /\ pc' = "est_probe"
                       /\ max_page' = 1
                       /\ page_to_test' = 1
                       /\ inc_idx' = 1
                       /\ est_hist' = [est_hist EXCEPT ![letter].first = "found"]
                       /\ UNCHANGED <<ret, additional_page, confirm_last>>
  /\ UNCHANGED <<site, letter_index, page_num, player_nicknames, result, agg_hist,
                 failed_contrib>>

\* lines 114-145: one probe of the increment search; an empty page or an
\* exception leaves the while loop, and line 144 then leaves the for loop
\* when page_to_test = max_page.  The code puts no limit on test_page: the
\* pages of an endless letter are folded (Folded).
EstProbe ==
  /\ pc = "est_probe"
  /\ UNCHANGED <<adaptiveVars, smartVars, fixedVars>>
  /\ \E f \in Fetches(Url(letter, TestOffset(TestPage(page_to_test,
                                                       test_increments[inc_idx])))) :
       LET increment == test_increments[inc_idx]
           test_page == TestPage(page_to_test, increment)
           url == Url(letter, TestOffset(test_page))
       IN /\ Logged(url, f)
          /\ pauses' = [pauses EXCEPT !.probe = ProbePause(f.ok /\ HasNickname(f.doc))]
          /\ UNCHANGED scrape_log
          /\ IF f.ok /\ HasNickname(f.doc)
             THEN /\ max_page' = Folded(letter, test_page)
                  /\ page_to_test' = Folded(letter, test_page)
                  /\ UNCHANGED <<pc, inc_idx, additional_page, confirm_last>>
             ELSE IF page_to_test = max_page \/ inc_idx = Len(test_increments)
                  THEN /\ pc' = "est_confirm"
                       /\ additional_page' = max_page + 1
                       /\ confirm_last' = ConfirmLast(max_page)
                       /\ UNCHANGED <<max_page, page_to_test, inc_idx>>
                  ELSE /\ inc_idx' = inc_idx + 1
                       /\ UNCHANGED <<pc, max_page, page_to_test, additional_page,
                                      confirm_last>>
  /\ UNCHANGED <<site, letter_index, ret, page_num, player_nicknames, result,
                 est_hist, agg_hist, failed_contrib>>

\* lines 147-173: one probe of the confirmation scan, and the return
EstConfirm ==
  /\ pc = "est_confirm"
  /\ UNCHANGED <<adaptiveVars, smartVars, fixedVars>>
  /\ \E f \in Fetches(Url(letter, TestOffset(additional_page))) :
       LET url == Url(letter, TestOffset(additional_page))
           found == f.ok /\ HasNickname(f.doc)
           new_max == IF found THEN additional_page ELSE max_page
       IN /\ Logged(url, f)
          /\ pauses' = [pauses EXCEPT !.probe = ProbePause(found)]
          /\ UNCHANGED scrape_log
          /\ max_page' = new_max
          /\ IF found /\ additional_page < confirm_last
             THEN /\ additional_page' = additional_page + 1
                  /\ UNCHANGED <<pc, ret, est_hist>>
             ELSE /\ EstReturns(new_max, "found")
                  /\ UNCHANGED additional_page
  /\ UNCHANGED <<site, letter_index, page_to_test, inc_idx, confirm_last, page_num,
                 player_nicknames, result, agg_hist, failed_contrib>>

(***************************************************************************)
(* scrape_all_players (main.py 264-326).                                   *)
(***************************************************************************)
\* lines 277-282: the next letter of the loop
BeginLetter ==
  /\ pc = "letter_loop"
  /\ UNCHANGED <<adaptiveVars, smartVars, fixedVars>>
  /\ letter_index <= Len(Letters)
  /\ pc' = "est_first"
  /\ pauses' = [pauses EXCEPT !.probe = "none"]
  /\ UNCHANGED scrape_log
  /\ max_page' = 0
  /\ page_to_test' = 0
  /\ inc_idx' = 1
  /\ additional_page' = 0
  /\ confirm_last' = 0
  /\ UNCHANGED <<site, letter_index, ret, page_num, player_nicknames, result,
                 requested, failed, est_hist, agg_hist, attempted, failed_contrib>>

\* lines 282-290; ret >= 1 here, so range(1, max_page + 1) is not empty
AfterEstimate ==
  /\ pc = "est_return"
  /\ UNCHANGED <<adaptiveVars, smartVars, fixedVars, logVars>>
  /\ IF ret = 0
     THEN /\ pc' = "letter_loop"
          /\ letter_index' = letter_index + 1
          /\ UNCHANGED page_num
     ELSE /\ pc' = "scrape"
          /\ page_num' = 1
          /\ UNCHANGED letter_index
  /\ UNCHANGED <<site, estVars, ret, player_nicknames, result, requested, failed,
                 est_hist, agg_hist, attempted, failed_contrib>>

\* lines 290-308 with scrape_letter_page (230-262)
ScrapePage ==
  /\ pc = "scrape"
  /\ UNCHANGED <<adaptiveVars, smartVars, fixedVars>>
  /\ \E f \in Fetches(PageUrl(letter, page_num)) :
       LET url == PageUrl(letter, page_num)
           page_nicknames == scrape_letter_page(f)
       IN /\ Logged(url, f)
          /\ scrape_log' = Append(scrape_log, url)
          /\ player_nicknames' = Update(player_nicknames, page_nicknames)
          /\ Absorbed(f.ok, player_nicknames, player_nicknames')
          /\ agg_hist' = Added(agg_hist, player_nicknames, player_nicknames',
                                page_nicknames)
  /\ pauses' = [pauses EXCEPT !.page = "slept"]
  /\ IF MorePages(page_num, ret)
     THEN /\ page_num' = page_num + 1
          /\ UNCHANGED <<pc, letter_index>>
     ELSE /\ pc' = "letter_loop"
          /\ letter_index' = letter_index + 1
          /\ UNCHANGED page_num
  /\ UNCHANGED <<site, estVars, ret, result, est_hist>>

\* lines 318-326
Finish ==
  /\ pc = "letter_loop"
  /\ UNCHANGED <<adaptiveVars, smartVars, fixedVars, logVars>>
  /\ letter_index > Len(Letters)
  /\ pc' = "done"
  /\ result' = Sorted(player_nicknames)
  /\ UNCHANGED <<site, letter_index, estVars, ret, page_num, player_nicknames,
                 requested, failed, est_hist, agg_hist, attempted, failed_contrib>>

(***************************************************************************)
(* improved_main.py: request_with_retry, extraction, pagination links.     *)
(***************************************************************************)
ImprovedOutcomes == {"ok", "404", "small", "error"}

\* "small": a 2xx response whose body is shorter than 1000 bytes
\* the scripts: no error or errors up to the last attempt, then one outcome
ImprovedScripts ==
  {[i \in 1..(ImprovedMaxRetries + 1) |-> IF i <= k THEN "error" ELSE o] :
     k \in {0, ImprovedMaxRetries}, o \in ImprovedOutcomes}

RECURSIVE improved_attempts(_, _, _)
improved_attempts(script, attempt, slept) ==
  LET o == script[attempt + 1]
      answer(status) ==
        [status |-> status, attempts |-> attempt + 1, slept |-> slept, last |-> o]
  IN IF o = "404" THEN answer("none")
     ELSE IF o = "small" THEN answer("none")
     ELSE IF o = "ok" THEN answer("ok")
     ELSE IF attempt < ImprovedMaxRetries
          THEN improved_attempts(script, attempt + 1,
                                 Append(slept, (attempt + 1) * ImprovedBaseDelay))
          ELSE answer("none")

request_with_retry_improved(script) == improved_attempts(script, 0, <<>>)

RECURSIVE DedupInto(_, _)
\* "remove duplicates while preserving order"
DedupInto(unique, nicknames) ==
  IF nicknames = <<>> THEN unique
  ELSE IF Head(nicknames) \in Range(unique)
       THEN DedupInto(unique, Tail(nicknames))
       ELSE DedupInto(Append(unique, Head(nicknames)), Tail(nicknames))

\* documents of the adaptive driver: sel is the first of the five selectors
\* that matches (0: none), texts the stripped element texts, hrefs the
\* names the pattern player/<id>/<name> captures in the raw page
ADoc(sel, texts, hrefs) == [sel |-> sel, texts |-> texts, hrefs |-> hrefs]

extract_player_nicknames_improved(doc) ==
  LET found == IF doc.sel \in 1..5
               THEN SelectSeq(doc.texts, LAMBDA t : t # "")
               ELSE <<>>
      nicknames == IF found = <<>> THEN doc.hrefs ELSE found
  IN DedupInto(<<>>, nicknames)

LetterPos(l) == CHOOSE i \in 1..Len(Letters) : Letters[i] = l

\* next_urls of get_pagination_info: the links that carry an integer offset,
\* and on a letter page the first page of the following letter
get_pagination_info(links, url) ==
  {u \in links : u.offset # NoOffset}
    \cup (IF url.letter \in LetterSet /\ LetterPos(url.letter) < Len(Letters)
          THEN {Url(Letters[LetterPos(url.letter) + 1], NoOffset)}
          ELSE {})

\* current_url.split('/')[-1].split('?')[0] in url
SameLetterKey(current, url) ==
  IF current.letter = "" THEN TRUE ELSE url.letter = current.letter

\* self.visited_urls.add(current_url)
MarkVisitedMutant(visited, url) == visited

MarkVisited(visited, url) == visited \cup {url}

RECURSIVE BagOfSeq(_)
BagOfSeq(seq) ==
  IF seq = <<>> THEN EmptyBag ELSE SetToBag({Head(seq)}) (+) BagOfSeq(Tail(seq))

RECURSIVE EnqueueMutant(_, _, _)
\* the test "not in urls_to_visit" left out
EnqueueMutant(queue, visited, next_urls) ==
  IF next_urls = <<>> THEN queue
  ELSE IF Head(next_urls) \notin visited
       THEN EnqueueMutant(Append(queue, Head(next_urls)), visited, Tail(next_urls))
       ELSE EnqueueMutant(queue, visited, Tail(next_urls))

RECURSIVE Enqueue(_, _, _)
\* if next_url not in self.visited_urls and next_url not in urls_to_visit
Enqueue(queue, visited, next_urls) ==
  IF next_urls = <<>> THEN queue
  ELSE IF Head(next_urls) \notin visited /\ Head(next_urls) \notin Range(queue)
       THEN Enqueue(Append(queue, Head(next_urls)), visited, Tail(next_urls))
       ELSE Enqueue(queue, visited, Tail(next_urls))

\* list(next_urls): a set listed in some order
Orders(S) ==
  {o \in [1..Cardinality(S) -> S] : \A i, j \in 1..Cardinality(S) : o[i] = o[j] => i = j}

AdaptiveDocs ==
  {ADoc(0, <<>>, <<>>), ADoc(1, <<"foo">>, <<>>), ADoc(0, <<>>, <<"foo", "bar", "foo">>)}

\* the links a page may carry: offsets of any letter, the offset-less main
\* page, and an offset that is no multiple of the page size (the href is the
\* site's: main.py 392 shows "A?offset=153")
LinkPool ==
  {Url(l, k * PLAYERS_PER_PAGE) : l \in LetterSet, k \in 1..MaxLinkPages}
    \cup {BaseUrl, Url(Letters[1], 153)}

LinkSets == {L \in SUBSET LinkPool : Cardinality(L) <= MaxLinks}

(***************************************************************************)
(* scrape_with_adaptive_strategy (improved_main.py 200-283).               *)
(***************************************************************************)
\* lines 232-235 and 266-267: "if not response: continue" goes to the next
\* URL of the queue, past the time.sleep(1.5) at the end of the iteration
PagePause(fetched) == IF fetched THEN "slept" ELSE "unslept"

\* lines 240-245: added = new_count - old_count; if added > 0
AddedSomeMutant(old, new) == TRUE

AddedSome(old, new) == Cardinality(new) > Cardinality(old)

\* line 256: if letter_pages < max_pages_per_letter
UnderLetterLimitMutant(letter_pages) == TRUE

UnderLetterLimit(letter_pages) == letter_pages < max_pages_per_letter

\* A letter of the site is free (site[l] = <<>>: any of AdaptiveDocs and of
\* LinkSets answers a fetch), or a table of pages, each a document and the
\* sequence of its pagination links, or endless: page p holds a nickname of
\* its own and one link, to the offset after its own.  The main listing is
\* free.
APage(doc, next) == [doc |-> doc, next |-> next]

NoPage == APage(ADoc(0, <<>>, <<>>), <<>>)

Tabled(url) ==
  url.letter \in LetterSet /\ (url.letter \in endless \/ site[url.letter] # <<>>)

ASitePage(url) ==
  LET p == PageOfOffset(url.offset)
  IN IF url.letter \in endless
     THEN APage(ADoc(1, <<FreshNames[p]>>, <<>>), <<Url(url.letter, p * PLAYERS_PER_PAGE)>>)
     ELSE IF p \in 1..Len(site[url.letter]) THEN site[url.letter][p] ELSE NoPage

ASiteDocs(url) == IF Tabled(url) THEN {ASitePage(url).doc} ELSE AdaptiveDocs

\* list(next_urls) of a page of a table: the links in the order of the page,
\* then the URL of the following letter
TableOrder(next, url) ==
  LET S == get_pagination_info(Range(next), url)
      other == S \ Range(next)
  IN SelectSeq(next, LAMBDA u : u \in S)
       \o (IF other = {} THEN <<>> ELSE <<CHOOSE u \in other : TRUE>>)

\* list(next_urls): a set listed in any order
ASiteNext(url) ==
  IF Tabled(url) THEN {TableOrder(ASitePage(url).next, url)}
  ELSE UNION {Orders(get_pagination_info(links, url)) : links \in LinkSets}

\* what request_with_retry answers the loop, over the scripts of the site:
\* the loop tests the answer for None only
ImprovedAnswers ==
  {[status |-> request_with_retry_improved(script).status] : script \in ImprovedScripts}

\* line 220, urls_to_visit.pop(0): the position the next URL is taken from
NextInQueueMutant(queue) == Len(queue)

NextInQueue(queue) == 1

\* lines 219-272: one iteration of the while loop
AdaptiveStep ==
  /\ pc = "adaptive_loop"
  /\ urls_to_visit # <<>>
  /\ UNCHANGED <<site, letter_index, estVars, ret, page_num, result, est_hist, smartVars,
                 fixedVars, scrape_log>>
  /\ LET at == NextInQueue(urls_to_visit)
         current == urls_to_visit[at]
         rest == SubSeq(urls_to_visit, 1, at - 1)
                   \o SubSeq(urls_to_visit, at + 1, Len(urls_to_visit))
     IN IF current \in visited_urls
        THEN /\ urls_to_visit' = rest
             /\ skipped' = TRUE
             /\ UNCHANGED <<pc, visited_urls, processed_count, player_nicknames,
                            requested, failed, agg_hist, dup_links, enqueued,
                            attempted, failed_contrib, pauses>>
        ELSE /\ visited_urls' = MarkVisited(visited_urls, current)
             /\ processed_count' = processed_count + 1
             /\ requested' = requested (+) SetToBag({current})
             /\ attempted' = IF current.letter \in LetterSet /\ current.offset = NoOffset
                             THEN attempted \cup {current.letter} ELSE attempted
             /\ UNCHANGED <<pc, skipped>>
             /\ \E response \in ImprovedAnswers :
                  LET ok == response.status = "ok"
                  IN /\ pauses' = [pauses EXCEPT !.page = PagePause(ok)]
                     /\ IF ~ok
                        THEN /\ failed' = 1
                             /\ urls_to_visit' = rest
                             /\ UNCHANGED <<player_nicknames, agg_hist, dup_links>>
                        ELSE /\ UNCHANGED failed
                             /\ \E doc \in ASiteDocs(current) :
                                  LET page_nicknames == extract_player_nicknames_improved(doc)
                                  IN IF page_nicknames = <<>>
                                     THEN /\ urls_to_visit' = rest
                                          /\ UNCHANGED <<player_nicknames, agg_hist, dup_links>>
                                     ELSE /\ player_nicknames' =
                                               Update(player_nicknames, page_nicknames)
                                          /\ agg_hist' = Added(agg_hist, player_nicknames,
                                                               player_nicknames', page_nicknames)
                                          /\ IF AddedSome(player_nicknames, player_nicknames')
                                                /\ UnderLetterLimit(
                                                     Cardinality({u \in visited_urls' :
                                                       SameLetterKey(current, u)}))
                                             THEN \E next_urls \in ASiteNext(current) :
                                                    /\ urls_to_visit' =
                                                         Enqueue(rest, visited_urls', next_urls)
                                                    /\ dup_links' =
                                                         (dup_links \/ Range(next_urls)
                                                            \cap (visited_urls' \cup Range(rest)) # {})
                                             ELSE /\ urls_to_visit' = rest
                                                  /\ UNCHANGED dup_links
                     /\ Absorbed(ok, player_nicknames, player_nicknames')
             /\ enqueued' = enqueued (+) BagOfSeq(SubSeq(urls_to_visit', Len(rest) + 1,
                                                         Len(urls_to_visit')))

\* lines 274-283
AdaptiveFinish ==
  /\ pc = "adaptive_loop"
  /\ urls_to_visit = <<>>
  /\ pc' = "done"
  /\ result' = Sorted(player_nicknames)
  /\ UNCHANGED <<site, letter_index, estVars, ret, page_num, player_nicknames,
                 requested, failed, est_hist, agg_hist, adaptiveVars, smartVars,
                 attempted, failed_contrib, fixedVars, logVars>>

(***************************************************************************)
(* smart_scraper.py: request_with_retry, extraction, next-page link.       *)
(***************************************************************************)
\* every RequestException, HTTP 404 included, is retried; None at the end
SmartScripts ==
  {[i \in 1..(SmartMaxRetries + 1) |-> IF i <= k THEN "error" ELSE o] :
     k \in {0, SmartMaxRetries}, o \in Outcomes}

request_with_retry_smart(script) ==
  request_attempts(script, 0, SmartMaxRetries, SmartBaseDelay, <<>>)

\* documents of the smart driver: sel and texts as above, hrefs the name
\* segments of the /player/<id>/<name> links, words the tokens that the
\* pattern of strategy 3 finds in the page text
SDoc(sel, texts, hrefs, words) ==
  [sel |-> sel, texts |-> texts, hrefs |-> hrefs, words |-> words]

\* nickname.replace('%20', ' ').replace('-', ' ') on the segments modelled
CleanSegment(seg) ==
  CASE seg = "foo-bar" -> "foo bar"
    [] seg = "foo%20bar" -> "foo bar"
    [] OTHER -> seg

\* len() of the strings modelled
StrLen(x) ==
  CASE x = "" -> 0
    [] x = "z" -> 1
    [] x = "foo bar" -> 7
    [] x = "foo-bar" -> 7
    [] x = "foo%20bar" -> 9
    [] OTHER -> 3

\* name.lower() on the tokens modelled
Lower(w) == IF w = "The" THEN "the" ELSE w

common_words ==
  {"the", "and", "for", "are", "but", "not", "you", "all", "can", "had", "her",
   "was", "one", "our", "out", "day", "get", "has", "him", "his", "how", "its",
   "may", "new", "now", "old", "see", "two", "who", "boy", "did", "man", "men",
   "run", "too", "any", "big", "end", "far", "got", "let", "own", "put", "say",
   "she", "try", "use", "way", "win", "yes", "yet"}

\* strategy 1: the texts of the elements of the first selector that matches
strategy1(doc) ==
  IF doc.sel \in 1..5 THEN SelectSeq(doc.texts, LAMBDA t : t # "") ELSE <<>>

\* strategy 2: the name segments of the player links
strategy2(doc) ==
  LET cleaned == [i \in 1..Len(doc.hrefs) |-> CleanSegment(doc.hrefs[i])]
  IN SelectSeq(cleaned, LAMBDA n : n # "" /\ StrLen(n) > 1)

\* strategy 3: the tokens of the page text, common words left out
strategy3(doc) ==
  LET filtered_names ==
        SelectSeq(doc.words, LAMBDA w : Lower(w) \notin common_words /\ StrLen(w) > 2)
  IN SubSeq(filtered_names, 1, Min(WeakCap, Len(filtered_names)))

\* the strategies the function runs: 2 under "if not nicknames" after 1,
\* 3 under "if not nicknames" after 2
strategies_run(doc) ==
  {1} \cup (IF strategy1(doc) = <<>> THEN {2} ELSE {})
      \cup (IF strategy1(doc) = <<>> /\ strategy2(doc) = <<>> THEN {3} ELSE {})

extract_nicknames_multiple_strategies(doc) ==
  LET nicknames == IF 2 \notin strategies_run(doc) THEN strategy1(doc)
                   ELSE IF 3 \notin strategies_run(doc) THEN strategy2(doc)
                   ELSE strategy3(doc)
  IN DedupInto(<<>>, nicknames)

SmartDocs ==
  {SDoc(0, <<>>, <<>>, <<>>),
   SDoc(1, <<"foo">>, <<"baz">>, <<"zed">>),
   SDoc(0, <<>>, <<"foo-bar", "z">>, <<"zed">>),
   SDoc(0, <<>>, <<"z">>, <<"The", "zed", "zed">>)}

\* what find_next_page_url returns: None, or the first link with an offset
SmartNext(l) == {NoUrl} \cup {Url(l, k * PLAYERS_PER_PAGE) : k \in 1..MaxLinkPages}

\* if page_added == 0 and page_count > 3: break
StopOnNoNewMutant(page_added, count) == FALSE

StopOnNoNewEarly(page_added, count) == page_added = 0 /\ count > 2

StopOnNoNew(page_added, count) == page_added = 0 /\ count > 3

\* if next_url and page_count < 3: continue, else break
ContinueAfterEmptyLate(next_url, count) == next_url # NoUrl /\ count <= 3

ContinueAfterEmpty(next_url, count) == next_url # NoUrl /\ count < 3

\* while current_url and page_count < max_pages
SafetyLimitMutant(count) == TRUE

SafetyLimitLate(count) == count <= max_pages

SafetyLimit(count) == count < max_pages

\* the document and the next-page link the site answers a fetch with: any
\* of SmartDocs and SmartNext when the site holds no table for the letter,
\* else the page of the table the URL points at and a link to the page
\* after it (or no link)
SDocAt(pages, p) == IF p \in 1..Len(pages) THEN pages[p] ELSE SDoc(0, <<>>, <<>>, <<>>)

SmartSiteDocs(l, url) ==
  IF site[l] = <<>> THEN SmartDocs ELSE {SDocAt(site[l], PageOfOffset(url.offset))}

SmartSiteNext(l, url) ==
  IF site[l] = <<>> THEN SmartNext(l)
  ELSE {NoUrl, Url(l, PageOfOffset(url.offset) * PLAYERS_PER_PAGE)}

\* what one fetch of scrape_single_letter_complete gave
PageSeen(kind, page_added, next_url) ==
  [kind |-> kind, added |-> page_added, next |-> next_url]

NoPageYet == PageSeen("none", 0, NoUrl)

(***************************************************************************)
(* scrape_all_players_smart and scrape_single_letter_complete              *)
(* (smart_scraper.py 164-259).                                             *)
(***************************************************************************)
\* lines 235-240 and 168-173
SmartBeginLetter ==
  /\ pc = "smart_letter"
  /\ letter_index <= Len(Letters)
  /\ pc' = "smart_page"
  /\ current_url' = Url(letter, NoOffset)
  /\ page_count' = 0
  /\ added_count' = 0
  /\ lead_new' = 0
  /\ trail_zero' = 0
  /\ last_page' = NoPageYet
  /\ requested' = EmptyBag
  /\ UNCHANGED <<site, letter_index, estVars, ret, page_num, player_nicknames, result,
                 failed, est_hist, agg_hist, adaptiveVars, total_added, attempted,
                 failed_contrib, fixedVars, logVars>>

\* what request_with_retry answers the loop, over the scripts of the site
SmartAnswers ==
  {[status |-> request_with_retry_smart(script).status] : script \in SmartScripts}

\* the letter's loop has ended: return added_count, lines 222-223 and 240-246
SmartLetterEnds(count) ==
  /\ pc' = "smart_letter"
  /\ total_added' = total_added + count
  /\ letter_index' = letter_index + 1

\* the page just fetched added page_added nicknames: the letter's pages so
\* far are lead_new pages that each added some, then trail_zero pages that
\* added none, as long as page_count = lead_new + trail_zero
PageLogged(page_added) ==
  IF page_added > 0 /\ lead_new = page_count
  THEN lead_new' = lead_new + 1 /\ UNCHANGED trail_zero
  ELSE IF page_added = 0 /\ lead_new + trail_zero = page_count
       THEN trail_zero' = trail_zero + 1 /\ UNCHANGED lead_new
       ELSE UNCHANGED <<lead_new, trail_zero>>

\* lines 175-220: one iteration of the while loop.  A page that leads to the
\* next one is followed by time.sleep(1.5) (204, 214); a page that ends the
\* letter is followed by the time.sleep(2) of scrape_all_players_smart (246)
SmartPage ==
  /\ pc = "smart_page"
  /\ UNCHANGED <<site, estVars, ret, page_num, result, est_hist, adaptiveVars, fixedVars,
                 scrape_log>>
  /\ pauses' = [pauses EXCEPT !.page = "slept"]
  /\ page_count' = page_count + 1
  /\ requested' = requested (+) SetToBag({current_url})
  /\ attempted' = IF current_url.offset = NoOffset
                  THEN attempted \cup {current_url.letter} ELSE attempted
  /\ \E response \in SmartAnswers :
       LET ok == response.status = "ok"
       IN /\ IF ~ok
             THEN /\ failed' = 1
                  /\ PageLogged(0)
                  /\ last_page' = PageSeen("failed", 0, NoUrl)
                  /\ SmartLetterEnds(added_count)
                  /\ UNCHANGED <<player_nicknames, agg_hist, current_url, added_count>>
             ELSE /\ UNCHANGED failed
                  /\ \E doc \in SmartSiteDocs(letter, current_url),
                        next_url \in SmartSiteNext(letter, current_url) :
                       LET page_nicknames == extract_nicknames_multiple_strategies(doc)
                           new_set == Update(player_nicknames, page_nicknames)
                           page_added == Cardinality(new_set) - Cardinality(player_nicknames)
                       IN IF page_nicknames # <<>>
                          THEN /\ player_nicknames' = new_set
                               /\ agg_hist' = Added(agg_hist, player_nicknames, new_set,
                                                    page_nicknames)
                               /\ added_count' = added_count + page_added
                               /\ PageLogged(page_added)
                               /\ last_page' = PageSeen("names", page_added, next_url)
                               /\ IF ~StopOnNoNew(page_added, page_count')
                                     /\ next_url # NoUrl /\ SafetyLimit(page_count')
                                  THEN /\ current_url' = next_url
                                       /\ UNCHANGED <<pc, total_added, letter_index>>
                                  ELSE /\ SmartLetterEnds(added_count')
                                       /\ current_url' =
                                            IF ~StopOnNoNew(page_added, page_count')
                                               /\ next_url # NoUrl
                                            THEN next_url ELSE current_url
                          ELSE /\ PageLogged(0)
                               /\ last_page' = PageSeen("empty", 0, next_url)
                               /\ UNCHANGED <<player_nicknames, agg_hist, added_count>>
                               /\ IF ContinueAfterEmpty(next_url, page_count')
                                  THEN /\ current_url' = next_url
                                       /\ UNCHANGED <<pc, total_added, letter_index>>
                                  ELSE /\ SmartLetterEnds(added_count)
                                       /\ UNCHANGED current_url
          /\ Absorbed(ok, player_nicknames, player_nicknames')

\* lines 252-259
SmartFinish ==
  /\ pc = "smart_letter"
  /\ letter_index > Len(Letters)
  /\ pc' = "done"
  /\ result' = Sorted(player_nicknames)
  /\ UNCHANGED <<site, letter_index, estVars, ret, page_num, player_nicknames,
                 requested, failed, est_hist, agg_hist, adaptiveVars, smartVars,
                 attempted, failed_contrib, fixedVars, logVars>>

(***************************************************************************)
(* Specifications.                                                         *)
(***************************************************************************)
NoHist == [l \in LetterSet |-> [first |-> "none", ret |-> -1]]

InitCommon ==
  /\ max_page = 0
  /\ page_to_test = 0
  /\ inc_idx = 1
  /\ additional_page = 0
  /\ confirm_last = 0
  /\ ret = -1
  /\ page_num = 0
  /\ player_nicknames = {}
  /\ result = <<>>
  /\ requested = EmptyBag
  /\ failed = 0
  /\ est_hist = NoHist
  /\ agg_hist = NoAgg
  /\ visited_urls = {}
  /\ processed_count = 0
  /\ dup_links = FALSE
  /\ current_url = NoUrl
  /\ page_count = 0
  /\ added_count = 0
  /\ total_added = 0
  /\ lead_new = 0
  /\ trail_zero = 0
  /\ skipped = FALSE
  /\ attempted = {}
  /\ failed_contrib = {}
  /\ calls = <<>>
  /\ exit_code = -1
  /\ saved = 0
  /\ reached_main = "none"
  /\ pauses = [probe |-> "none", page |-> "none"]
  /\ scrape_log = <<>>
  /\ last_page = NoPageYet

\* get_lastnumber_for_letter called for one letter
InitEstimator ==
  /\ InitCommon
  /\ pc = "est_first"
  /\ urls_to_visit = <<>>
  /\ enqueued = EmptyBag
  /\ endless = {}
  /\ letter_index \in 1..Len(Letters)
  /\ \E pages \in EstimatorSites :
       site = [l \in LetterSet |-> IF l = Letters[letter_index] THEN pages ELSE <<>>]

NextEstimator == EstFirstPage \/ EstProbe \/ EstConfirm

SpecEstimator == InitEstimator /\ [][NextEstimator]_vars

\* get_lastnumber_for_letter called for one letter of a site that may
\* answer every offset beyond its table with a page of nicknames; the call
\* runs on its own thread of control, so a step that is enabled is taken
EndlessSites == {Contig(k) : k \in 0..3}

InitEstimatorLive ==
  /\ InitCommon
  /\ pc = "est_first"
  /\ urls_to_visit = <<>>
  /\ enqueued = EmptyBag
  /\ letter_index \in 1..Len(Letters)
  /\ endless \in {{}, {Letters[letter_index]}}
  /\ \E pages \in EndlessSites :
       site = [l \in LetterSet |-> IF l = Letters[letter_index] THEN pages ELSE <<>>]

SpecEstimatorLive ==
  InitEstimatorLive /\ [][NextEstimator]_vars /\ WF_vars(NextEstimator)

\* scrape_all_players
InitBounded ==
  /\ InitCommon
  /\ pc = "letter_loop"
  /\ urls_to_visit = <<>>
  /\ enqueued = EmptyBag
  /\ endless = {}
  /\ letter_index = 1
  /\ site \in [LetterSet -> BoundedSites \cup TailSites]
  /\ \A i \in 3..Len(Letters) : site[Letters[i]] \in TailSites

NextBounded ==
  \/ BeginLetter
  \/ EstFirstPage
  \/ EstProbe
  \/ EstConfirm
  \/ AfterEstimate
  \/ ScrapePage
  \/ Finish

SpecBounded == InitBounded /\ [][NextBounded]_vars

\* scrape_with_adaptive_strategy: the queue holds the main page, then the
\* first page of every letter
InitAdaptive ==
  /\ InitCommon
  /\ pc = "adaptive_loop"
  /\ letter_index = 1
  /\ site = [l \in LetterSet |-> <<>>]
  /\ endless = {}
  /\ urls_to_visit = <<BaseUrl>> \o [i \in 1..Len(Letters) |-> Url(Letters[i], NoOffset)]
  /\ enqueued = BagOfSeq(urls_to_visit)

NextAdaptive == AdaptiveStep \/ AdaptiveFinish

SpecAdaptive == InitAdaptive /\ [][NextAdaptive]_vars

\* scrape_with_adaptive_strategy on a site whose first letter is endless, or
\* holds a first page with more pagination links than max_pages_per_letter;
\* the other letters hold one page without nicknames.  The while loop makes
\* a step as long as the queue is not empty and every fetch returns: weak
\* fairness of the loop.
WideSite ==
  <<APage(ADoc(1, <<FreshNames[1]>>, <<>>),
          [k \in 1..(max_pages_per_letter + 1) |-> Url(Letters[1], k * PLAYERS_PER_PAGE)])>>

InitAdaptiveLive ==
  /\ InitCommon
  /\ pc = "adaptive_loop"
  /\ letter_index = 1
  /\ \/ /\ endless = {Letters[1]}
        /\ site = [l \in LetterSet |-> <<NoPage>>]
     \/ /\ endless = {}
        /\ site = [l \in LetterSet |-> IF l = Letters[1] THEN WideSite ELSE <<NoPage>>]
  /\ urls_to_visit = <<BaseUrl>> \o [i \in 1..Len(Letters) |-> Url(Letters[i], NoOffset)]
  /\ enqueued = BagOfSeq(urls_to_visit)

SpecAdaptiveLive ==
  InitAdaptiveLive /\ [][NextAdaptive]_vars /\ WF_vars(NextAdaptive)

\* scrape_all_players_smart
InitSmart ==
  /\ InitCommon
  /\ pc = "smart_letter"
  /\ urls_to_visit = <<>>
  /\ enqueued = EmptyBag
  /\ endless = {}
  /\ letter_index = 1
  /\ site = [l \in LetterSet |-> <<>>]

NextSmart == SmartBeginLetter \/ SmartPage \/ SmartFinish

SpecSmart == InitSmart /\ [][NextSmart]_vars

\* scrape_all_players_smart on a site whose first letter holds more pages
\* than max_pages, each with a nickname of its own and a link to the page
\* after it, and whose other letters hold one page without nicknames
CapSite == [p \in 1..(max_pages + 1) |-> SDoc(1, <<FreshNames[p]>>, <<>>, <<>>)]

InitSmartCap ==
  /\ InitCommon
  /\ pc = "smart_letter"
  /\ urls_to_visit = <<>>
  /\ enqueued = EmptyBag
  /\ endless = {}
  /\ letter_index = 1
  /\ site = [l \in LetterSet |->
               IF l = Letters[1] THEN CapSite ELSE <<SDoc(0, <<>>, <<>>, <<>>)>>]

SpecSmartCap == InitSmartCap /\ [][NextSmart]_vars

\* scrape_all_players_smart on either site; every fetch returns and the
\* loops run on one thread of control, so a step that is enabled is taken
SpecSmartLive ==
  (InitSmart \/ InitSmartCap) /\ [][NextSmart]_vars /\ WF_vars(NextSmart)

(***************************************************************************)
(* The pure functions called on their own: request_with_retry of the       *)
(* three scrapers on a script of HTTP outcomes, and                        *)
(* extract_nicknames_multiple_strategies on a document.                    *)
(***************************************************************************)
\* documents given to the extraction: those of the smart driver, and pages
\* where a selector matches elements whose text is blank
ExtractDocs ==
  SmartDocs \cup
    {SDoc(1, <<"">>, <<"baz">>, <<"zed">>),
     SDoc(1, <<"", "">>, <<>>, <<"The", "zed">>),
     SDoc(2, <<"foo">>, <<"baz">>, <<"zed">>)}

\* what the caller gets, the HTTP requests issued and the sleeps made
Outcome(value, r) == [value |-> value, attempts |-> r.attempts, slept |-> r.slept]

Called(fn, input, output) ==
  /\ calls' = Append(calls, [fn |-> fn, input |-> input, output |-> output])
  /\ UNCHANGED <<pc, site, letter_index, estVars, ret, page_num, player_nicknames,
                 result, requested, failed, est_hist, agg_hist, adaptiveVars,
                 smartVars, attempted, failed_contrib, endless, mainVars, logVars>>

\* main.py 65-79: the response, or the last exception raised
CallRetryMain ==
  /\ pc = "calls"
  /\ Len(calls) < MaxCalls
  /\ \E script \in Scripts(MainMaxRetries + 1) :
       LET r == request_with_retry(script)
       IN Called("main", script,
                 Outcome(IF r.status = "ok" THEN "response" ELSE "raise", r))

\* improved_main.py 65-92: the response or None
CallRetryImproved ==
  /\ pc = "calls"
  /\ Len(calls) < MaxCalls
  /\ \E script \in ImprovedScripts :
       LET r == request_with_retry_improved(script)
       IN Called("improved", script,
                 Outcome(IF r.status = "ok" THEN "response" ELSE "None", r))

\* smart_scraper.py 52-65: the response or None
CallRetrySmart ==
  /\ pc = "calls"
  /\ Len(calls) < MaxCalls
  /\ \E script \in SmartScripts :
       LET r == request_with_retry_smart(script)
       IN Called("smart", script,
                 Outcome(IF r.status = "ok" THEN "response" ELSE "None", r))

\* smart_scraper.py 67-138
CallExtract ==
  /\ pc = "calls"
  /\ Len(calls) < MaxCalls
  /\ \E doc \in ExtractDocs :
       Called("extract", doc,
              [names |-> extract_nicknames_multiple_strategies(doc),
               ran |-> strategies_run(doc)])

InitCalls ==
  /\ InitCommon
  /\ pc = "calls"
  /\ urls_to_visit = <<>>
  /\ enqueued = EmptyBag
  /\ endless = {}
  /\ letter_index = 1
  /\ site = [l \in LetterSet |-> <<>>]

NextCalls == CallRetryMain \/ CallRetryImproved \/ CallRetrySmart \/ CallExtract

SpecCalls == InitCalls /\ [][NextCalls]_vars

\* a run of any of the three drivers
(***************************************************************************)
(* main() of main.py (385-439), of improved_main.py (342-398) and of       *)
(* smart_scraper.py (298-347): the crawl, the test of its result,          *)
(* save_to_files, and the two handlers.                                    *)
(***************************************************************************)
NoResultMutant(player_list) == FALSE

\* "if not player_nicknames: ... return 1"
NoResult(player_list) == player_list = <<>>

\* what main() leaves alone
crawlVars ==
  <<site, letter_index, estVars, ret, page_num, player_nicknames, result, requested,
    failed, est_hist, agg_hist, adaptiveVars, smartVars, attempted, failed_contrib,
    endless, calls, logVars>>

\* the crawl has returned its list: return 1 when it is empty, else the
\* summary and save_to_files, which returns or raises (a file that cannot
\* be written), and then "return 0" or the handler's "return 1"
MainReturns ==
  /\ pc = "done"
  /\ pc' = "exited"
  /\ IF NoResult(result)
     THEN /\ exit_code' = 1
          /\ UNCHANGED <<saved, reached_main>>
     ELSE \E raised \in BOOLEAN :
            /\ saved' = saved + 1
            /\ reached_main' = IF raised THEN "error" ELSE "none"
            /\ exit_code' = IF raised THEN 1 ELSE 0
  /\ UNCHANGED crawlVars

\* KeyboardInterrupt is no Exception: no handler of the crawl catches it, and
\* it reaches main() from any point of the crawl or of the summary.  An
\* Exception reaches main() from scrape_with_adaptive_strategy, which has no
\* handler of its own; the other two crawls catch it.  Both handlers return 1.
MainInterrupted ==
  /\ pc \notin {"exited", "calls"}
  /\ pc' = "exited"
  /\ reached_main' \in (IF pc = "adaptive_loop" THEN {"interrupt", "error"}
                                               ELSE {"interrupt"})
  /\ exit_code' = 1
  /\ UNCHANGED saved
  /\ UNCHANGED crawlVars

InitMain ==
  \/ InitAdaptive
  \/ InitSmart
  \/ /\ InitCommon
     /\ pc = "letter_loop"
     /\ urls_to_visit = <<>>
     /\ enqueued = EmptyBag
     /\ endless = {}
     /\ letter_index = 1
     /\ site \in [LetterSet -> TailSites]

NextMain == NextBounded \/ NextAdaptive \/ NextSmart \/ MainReturns \/ MainInterrupted

SpecMain == InitMain /\ [][NextMain]_vars

Init == InitBounded \/ InitAdaptive \/ InitSmart

Next == NextBounded \/ NextAdaptive \/ NextSmart

Spec == Init /\ [][Next]_vars

(***************************************************************************)
(* Vocabulary of the properties.                                           *)
(***************************************************************************)
\* the page holds at least one nickname element
PageHasNicknames(doc) == doc.sel = 1 /\ doc.texts # <<>>

NonEmptyPages(pages) == {p \in 1..Len(pages) : PageHasNicknames(pages[p])}

LastNonEmpty(pages) ==
  IF NonEmptyPages(pages) = {} THEN 0
  ELSE CHOOSE p \in NonEmptyPages(pages) : \A q \in NonEmptyPages(pages) : q <= p

IsContiguous(pages) == NonEmptyPages(pages) = 1..LastNonEmpty(pages)

UrlsOf(l) == {u \in BagToSet(requested) : u.letter = l}

RECURSIVE SumCopies(_)
SumCopies(S) ==
  IF S = {} THEN 0
  ELSE LET u == CHOOSE x \in S : TRUE
       IN CopiesIn(u, requested) + SumCopies(S \ {u})

FetchCount(l) == SumCopies(UrlsOf(l))

EstReturned == pc = "est_return"

LetterFinished(i) == letter_index > i \/ pc = "done"

(***************************************************************************)
(* C1: on a site that never fails, where pages 1..k (k >= 1) of the letter *)
(* hold nicknames and no page beyond k does, the estimator returns k.      *)
(***************************************************************************)
EstimatorReturnsK ==
  (EstReturned /\ failed = 0 /\ IsContiguous(site[letter])
     /\ LastNonEmpty(site[letter]) >= 1)
    => ret = LastNonEmpty(site[letter])

EstimatorReturnsKWitness ==
  /\ EstReturned
  /\ failed = 0
  /\ NonEmptyPages(site[letter]) = 1..7
  /\ ret = 7

EmptyFirstPageOneFetch ==
  \A i \in 1..Len(Letters) :
    LET l == Letters[i]
    IN (est_hist[l].first \in {"empty", "found"} /\ DocAt(site[l], 1).sel # 1)
         => /\ est_hist[l].ret = 0
            /\ UrlsOf(l) = {Url(l, NoOffset)}
            /\ CopiesIn(Url(l, NoOffset), requested) = 1

EmptyFirstPageWitness ==
  /\ pc = "done"
  /\ \E l \in LetterSet :
       /\ est_hist[l].first = "empty"
       /\ Len(site[l]) > 1
       /\ FetchCount(l) = 1

(***************************************************************************)
(* C4 as claimed: whichever fetch of the estimation fails, the value the   *)
(* estimator returns never exceeds the last non-empty page of the letter.  *)
(***************************************************************************)
NeverOvercounts == EstReturned => ret <= LastNonEmpty(site[letter])

(***************************************************************************)
(* C5 as claimed: on a letter with M >= 30 contiguous non-empty pages and  *)
(* no failure, the estimator does not probe every page 1..M.               *)
(***************************************************************************)
SkipsInteriorPages ==
  (EstReturned /\ failed = 0 /\ IsContiguous(site[letter])
     /\ LastNonEmpty(site[letter]) >= 30)
    => \E p \in 1..LastNonEmpty(site[letter]) :
         PageUrl(letter, p) \notin BagToSet(requested)

(***************************************************************************)
(* C6: with only letter A holding content, pages {foo, bar}, {baz}, {foo}  *)
(* and an empty fourth page, and no failed fetch, scrape_all_players       *)
(* returns [bar, baz, foo].                                                *)
(***************************************************************************)
NoContent(pages) ==
  \A p \in 1..Len(pages) : extract_player_nicknames_from_page(pages[p]) = <<>>

EndToEndScenario ==
  /\ failed = 0
  /\ site["A"] = ScenarioA
  /\ \A l \in LetterSet \ {"A"} : NoContent(site[l])

EndToEndResult ==
  (pc = "done" /\ EndToEndScenario) => result = <<"bar", "baz", "foo">>

EndToEndWitness ==
  /\ pc = "done"
  /\ EndToEndScenario
  /\ Len(result) = 3

(***************************************************************************)
(* C7 as claimed: a letter whose first three pages are non-empty and whose *)
(* fourth is empty costs exactly 4 page fetches, one per page.             *)
(***************************************************************************)
ThreePageLetter(l) ==
  /\ failed = 0
  /\ {1, 2, 3} \subseteq NonEmptyPages(site[l])
  /\ 4 \notin NonEmptyPages(site[l])

FourPageUrls(l) ==
  {Url(l, NoOffset), Url(l, 52), Url(l, 104), Url(l, 156)}

FourFetches ==
  \A i \in 1..Len(Letters) :
    (LetterFinished(i) /\ ThreePageLetter(Letters[i]))
      => /\ FetchCount(Letters[i]) = 4
         /\ \A u \in FourPageUrls(Letters[i]) : CopiesIn(u, requested) = 1

(***************************************************************************)
(* C7 amended: such a letter costs exactly 8 page fetches when no fetch    *)
(* fails: each of pages 1, 2, 3 once by the estimator and once by the      *)
(* scrape loop, page 4 once by the increment search and once by the        *)
(* confirmation scan.                                                      *)
(***************************************************************************)
EightFetches ==
  \A i \in 1..Len(Letters) :
    (LetterFinished(i) /\ ThreePageLetter(Letters[i]))
      => /\ FetchCount(Letters[i]) = 8
         /\ UrlsOf(Letters[i]) = FourPageUrls(Letters[i])
         /\ \A u \in FourPageUrls(Letters[i]) : CopiesIn(u, requested) = 2

EightFetchesWitness ==
  /\ LetterFinished(1)
  /\ ThreePageLetter("A")
  /\ site["A"] = ScenarioA
  /\ FetchCount("A") = 8

(***************************************************************************)
(* C8: in the adaptive crawl no URL is passed to request_with_retry more   *)
(* than once, whatever links the pages carry.                              *)
(***************************************************************************)
NoUrlFetchedTwice == \A u \in BagToSet(requested) : CopiesIn(u, requested) = 1

NoUrlFetchedTwiceWitness ==
  /\ pc = "done"
  /\ dup_links
  /\ failed > 0
  /\ Url("A", PLAYERS_PER_PAGE) \in visited_urls
  /\ CopiesIn(Url("A", PLAYERS_PER_PAGE), requested) = 1

(***************************************************************************)
(* C9: when pages 1-3 of a letter each add a new nickname and the pages    *)
(* after them add none, the smart crawl of the letter fetches no page      *)
(* beyond the 6th.                                                         *)
(***************************************************************************)
ThreeNewThenNone ==
  /\ pc \in {"smart_page", "smart_letter", "done"}
  /\ lead_new = 3
  /\ trail_zero >= 1
  /\ page_count = lead_new + trail_zero

ThreeStrikes == ThreeNewThenNone => page_count <= 6

ThreeStrikesWitness ==
  /\ ThreeNewThenNone
  /\ pc = "smart_letter"
  /\ page_count = 4
  /\ agg_hist.added = 0
  /\ agg_hist.repeat

(***************************************************************************)
(* C10: adding a sequence of nicknames that was added before adds zero     *)
(* names and leaves the size of player_nicknames as it was.                *)
(***************************************************************************)
AddIdempotent ==
  agg_hist.repeat
    => /\ agg_hist.added = 0
       /\ Cardinality(player_nicknames) = agg_hist.before

AddIdempotentWitness ==
  /\ pc = "done"
  /\ agg_hist.repeat
  /\ Len(agg_hist.last) >= 2
  /\ Cardinality(player_nicknames) >= 2

(***************************************************************************)
(* Vocabulary of the properties about the pure calls.                      *)
(***************************************************************************)
RetryCalls == {i \in 1..Len(calls) : calls[i].fn \in {"main", "improved", "smart"}}

ExtractCalls == {i \in 1..Len(calls) : calls[i].fn = "extract"}

\* structural absence: HTTP 404, or a body shorter than 1000 bytes
Absence == {"404", "small"}

(***************************************************************************)
(* C11 as claimed: when the primary selector matches an element of the     *)
(* document, extract_nicknames_multiple_strategies runs neither strategy 2 *)
(* nor strategy 3, and every name it returns is a text of the elements     *)
(* the selector matched.                                                   *)
(***************************************************************************)
PrimaryMatchNoFallback ==
  \A i \in ExtractCalls :
    (calls[i].input.sel = 1 /\ calls[i].input.texts # <<>>)
      => /\ calls[i].output.ran = {1}
         /\ Range(calls[i].output.names) \subseteq Range(calls[i].input.texts)

(***************************************************************************)
(* C12 as claimed: in every variant of request_with_retry the attempt that *)
(* meets a 404 or a body shorter than 1000 bytes is the last one: no       *)
(* request follows it and no sleep was made for it.                        *)
(***************************************************************************)
AbsenceEndsFetch ==
  \A i \in RetryCalls :
    \A a \in 1..calls[i].output.attempts :
      calls[i].input[a] \in Absence
        => /\ calls[i].output.attempts = a
           /\ Len(calls[i].output.slept) = a - 1

(***************************************************************************)
(* C13 as claimed: what request_with_retry of improved_main.py returns     *)
(* after its retry budget is exhausted on errors other than 404 differs    *)
(* from what it returns for a 404.                                         *)
(***************************************************************************)
Exhausted(i) ==
  /\ calls[i].fn = "improved"
  /\ calls[i].output.attempts = ImprovedMaxRetries + 1
  /\ \A a \in 1..(ImprovedMaxRetries + 1) : calls[i].input[a] = "error"

NotFound(i) ==
  /\ calls[i].fn = "improved"
  /\ calls[i].input[calls[i].output.attempts] = "404"

TransientDistinctFromNotFound ==
  \A i, j \in RetryCalls :
    (Exhausted(i) /\ NotFound(j)) => calls[i].output.value # calls[j].output.value

(***************************************************************************)
(* C14: in each of the three drivers a step whose fetch failed neither     *)
(* adds a nickname to the result set nor removes one, and when the driver  *)
(* returns the first page of every letter has been requested.              *)
(***************************************************************************)
FailureAbsorbed ==
  /\ failed_contrib = {}
  /\ pc = "done" => attempted = LetterSet

FailureAbsorbedWitness ==
  /\ pc = "done"
  /\ failed = 1
  /\ est_hist[Letters[1]].first = "failed"
  /\ attempted = LetterSet
  /\ player_nicknames # {}

(***************************************************************************)
(* C15 as claimed: when the request of the first page of a letter fails in *)
(* the estimation, no other fetch is issued for the letter: its first page *)
(* is not requested again and no other page of it is requested.            *)
(***************************************************************************)
FailedFirstPageSkipsLetter ==
  \A l \in LetterSet :
    est_hist[l].first = "failed"
      => /\ UrlsOf(l) = {Url(l, NoOffset)}
         /\ CopiesIn(Url(l, NoOffset), requested) = 1

(***************************************************************************)
(* C16 as claimed: whatever the site answers, a call of                    *)
(* get_lastnumber_for_letter eventually returns.                      *)
(***************************************************************************)
EstimationTerminates == <>EstReturned

(***************************************************************************)
(* C17: scrape_single_letter_complete fetches at most 50 pages of a        *)
(* letter, however long the site goes on linking to a next page.           *)
(***************************************************************************)
AtMostFiftyPages ==
  /\ page_count <= 50
  /\ BagCardinality(requested) <= 50

AtMostFiftyPagesWitness ==
  /\ pc = "smart_letter"
  /\ letter_index = 2
  /\ page_count = 50
  /\ BagCardinality(requested) = 50
  /\ current_url = Url(Letters[1], 50 * PLAYERS_PER_PAGE)
  /\ Cardinality(player_nicknames) = 50

(***************************************************************************)
(* C18: in the adaptive crawl every URL is put into urls_to_visit at most  *)
(* once over the run, the initial URLs included; the queue never holds a   *)
(* URL twice nor a URL of visited_urls, the "already visited" skip is      *)
(* never taken, and processed_count is the size of visited_urls.           *)
(***************************************************************************)
EnqueuedAtMostOnce ==
  /\ \A u \in BagToSet(enqueued) : CopiesIn(u, enqueued) = 1
  /\ \A i, j \in 1..Len(urls_to_visit) : urls_to_visit[i] = urls_to_visit[j] => i = j
  /\ Range(urls_to_visit) \cap visited_urls = {}
  /\ ~skipped
  /\ processed_count = Cardinality(visited_urls)

EnqueuedAtMostOnceWitness ==
  /\ pc = "done"
  /\ dup_links
  /\ Url("A", PLAYERS_PER_PAGE) \in BagToSet(enqueued)
  /\ BagCardinality(enqueued) > Len(Letters) + 1
  /\ processed_count = BagCardinality(enqueued)

(***************************************************************************)
(* C19: in the three drivers no step, whether its fetch succeeds or fails, *)
(* removes a nickname from player_nicknames: the set after a step contains *)
(* the set before it, and so its size never decreases.                     *)
(***************************************************************************)
NicknamesOnlyGrow ==
  [][/\ player_nicknames \subseteq player_nicknames'
     /\ Cardinality(player_nicknames') >= Cardinality(player_nicknames)]_vars

NicknamesOnlyGrowWitness ==
  /\ pc = "done"
  /\ failed = 1
  /\ agg_hist.added = 0
  /\ agg_hist.before >= 3
  /\ Cardinality(player_nicknames) >= 3

(***************************************************************************)
(* C20: the list a driver returns is in strictly ascending order (so it    *)
(* holds no nickname twice) and its elements are exactly the nicknames of  *)
(* the pages extracted during the run.                                     *)
(***************************************************************************)
Rank(n) == CHOOSE i \in 1..Len(NameOrder) : NameOrder[i] = n

Accumulated == UNION {Range(page_nicknames) : page_nicknames \in agg_hist.seen}

ResultSortedExact ==
  pc = "done"
    => /\ \A i, j \in 1..Len(result) : i < j => Rank(result[i]) < Rank(result[j])
       /\ Range(result) = Accumulated

ResultSortedExactWitness ==
  /\ pc = "done"
  /\ failed = 0
  /\ Len(result) >= 3
  /\ Cardinality(agg_hist.seen) >= 3
  /\ \E page_nicknames \in agg_hist.seen : Len(page_nicknames) >= 2

(***************************************************************************)
(* C21: main() returns 0 exactly when the crawl produced at least one      *)
(* nickname and neither an exception nor an interrupt reached the handlers *)
(* of main(); it returns 1 otherwise; save_to_files is called at most      *)
(* once, and only after the crawl has returned a non-empty list.           *)
(***************************************************************************)
MainExitCode ==
  /\ saved <= 1
  /\ saved = 1 => result # <<>> /\ Range(result) = player_nicknames
  /\ pc # "exited" => exit_code = -1 /\ saved = 0
  /\ pc = "exited" =>
       /\ exit_code \in {0, 1}
       /\ exit_code = 0 <=> (player_nicknames # {} /\ reached_main = "none")
       /\ exit_code = 0 => saved = 1

MainExitCodeWitness ==
  /\ pc = "exited"
  /\ exit_code = 0
  /\ saved = 1
  /\ Cardinality(player_nicknames) >= 2

(***************************************************************************)
(* C22: every URL requested is the base listing URL, <base>/<letter>, or   *)
(* <base>/<letter>?offset=n with n a non-negative multiple of 52; in       *)
(* bounded mode page 1 is requested without offset and page p >= 2 with    *)
(* offset (p - 1) * 52.                                                    *)
(***************************************************************************)
WellFormedUrl(u) ==
  \/ u = BaseUrl
  \/ /\ u.letter \in LetterSet
     /\ \/ u.offset = NoOffset
        \/ u.offset >= 0 /\ u.offset % PLAYERS_PER_PAGE = 0

RequestedUrlsWellFormed == \A u \in BagToSet(requested) : WellFormedUrl(u)

(***************************************************************************)
(* C23: when a probe at the current increment finds an empty page, the     *)
(* search goes on with the next larger increment of 1, 5, 10, 20, 50, 100, *)
(* so that on a letter with enough pages every increment has been used for *)
(* a probe when the estimator returns.  inc_idx is the position of the     *)
(* increment of the probes; the letter here has MaxK pages and no fetch    *)
(* fails.                                                                  *)
(***************************************************************************)
EveryIncrementUsed ==
  (EstReturned /\ failed = 0 /\ NonEmptyPages(site[letter]) = 1..MaxK)
    => inc_idx = Len(test_increments)

(***************************************************************************)
(* C24: the confirmation scan probes at most 5 pages, in ascending order,  *)
(* starting right after the boundary the increment search found; it moves  *)
(* the boundary by one for each consecutive non-empty page and stops at    *)
(* the first empty or failed page; the value returned lies between the     *)
(* boundary and the boundary + 5.  The boundary of the increment search is *)
(* page_to_test, which the scan does not write.                            *)
(***************************************************************************)
ProbesOf(p) == CopiesIn(Url(letter, TestOffset(p)), requested)

ConfirmationScan ==
  LET boundary == page_to_test
  IN /\ pc = "est_confirm" =>
          /\ additional_page \in (boundary + 1)..(boundary + 5)
          /\ max_page = additional_page - 1
          /\ \A p \in (boundary + 2)..(boundary + 6) :
               ProbesOf(p) = IF p < additional_page THEN 1 ELSE 0
     /\ (EstReturned /\ est_hist[letter].first = "found") =>
          /\ ret \in boundary..(boundary + 5)
          /\ \A p \in (boundary + 1)..ret : HasNickname(DocAt(site[letter], p))
          /\ ProbesOf(boundary + 1) = 2
          /\ \A p \in (boundary + 2)..(boundary + 6) :
               ProbesOf(p) = IF p <= Min(ret + 1, boundary + 5) THEN 1 ELSE 0
          /\ ret < boundary + 5 =>
               (failed = 1 \/ ~HasNickname(DocAt(site[letter], ret + 1)))

ConfirmationScanWitness ==
  /\ EstReturned
  /\ est_hist[letter].first = "found"
  /\ page_to_test = 2
  /\ ret = page_to_test + 5

(***************************************************************************)
(* C25: the estimator and the extractor agree on emptiness: a letter whose *)
(* first page was fetched and yields a nickname under                      *)
(* extract_player_nicknames_from_page is never reported as having 0 pages. *)
(***************************************************************************)
ExtractableFirstPageCounted ==
  \A l \in LetterSet :
    (/\ est_hist[l].first \in {"empty", "found"}
     /\ extract_player_nicknames_from_page(DocAt(site[l], 1)) # <<>>)
      => est_hist[l].ret # 0

(***************************************************************************)
(* C26: in bounded mode, once the estimator has returned M >= 1 for a      *)
(* letter, the scrape loop requests the pages 1..M of the letter, each     *)
(* exactly once and in ascending order, also when some of the requests     *)
(* fail; the letters come in the order of the alphabet, all the pages of   *)
(* one letter before any page of the next.                                 *)
(***************************************************************************)
ScrapedOf(l) == SelectSeq(scrape_log, LAMBDA u : u.letter = l)

ScrapeInOrder ==
  /\ \A i, j \in 1..Len(scrape_log) :
       i < j => LetterPos(scrape_log[i].letter) <= LetterPos(scrape_log[j].letter)
  /\ \A l \in LetterSet :
       /\ \A i \in 1..Len(ScrapedOf(l)) : ScrapedOf(l)[i] = PageUrl(l, i)
       /\ Len(ScrapedOf(l)) <= IF est_hist[l].ret >= 1 THEN est_hist[l].ret ELSE 0
       /\ LetterFinished(LetterPos(l)) /\ est_hist[l].ret >= 1
            => Len(ScrapedOf(l)) = est_hist[l].ret

ScrapeInOrderWitness ==
  /\ pc = "done"
  /\ site[Letters[1]] = ScenarioA
  /\ site[Letters[2]] = BlankSite
  /\ est_hist[Letters[1]].ret = 3
  /\ Len(scrape_log) = 4
  /\ "baz" \notin player_nicknames

(***************************************************************************)
(* C27: request_with_retry makes at most max_retries + 1 attempts, returns *)
(* at the first successful attempt, sleeps i * base_delay after the i-th   *)
(* failed attempt when another attempt follows, and does not sleep after   *)
(* the last failed attempt.                                                *)
(***************************************************************************)
MaxRetriesOf(fn) ==
  IF fn = "main" THEN MainMaxRetries
  ELSE IF fn = "improved" THEN ImprovedMaxRetries ELSE SmartMaxRetries

BaseDelayOf(fn) ==
  IF fn = "main" THEN MainBaseDelay
  ELSE IF fn = "improved" THEN ImprovedBaseDelay ELSE SmartBaseDelay

RetryBackoff ==
  \A i \in RetryCalls :
    LET c == calls[i]
        n == c.output.attempts
    IN /\ n \in 1..(MaxRetriesOf(c.fn) + 1)
       /\ \A a \in 1..(n - 1) : c.input[a] # "ok"
       /\ c.output.value = "response" <=> c.input[n] = "ok"
       /\ c.output.slept = [a \in 1..(n - 1) |-> a * BaseDelayOf(c.fn)]
       /\ (\A a \in 1..n : c.input[a] = "error") => n = MaxRetriesOf(c.fn) + 1

RetryBackoffWitness ==
  /\ Len(calls) = 2
  /\ calls[1].fn = "main"
  /\ calls[1].output = [value |-> "raise", attempts |-> 3, slept |-> <<2, 4>>]
  /\ calls[2].fn = "improved"
  /\ calls[2].output = [value |-> "response", attempts |-> 4, slept |-> <<3, 6, 9>>]

(***************************************************************************)
(* C28: during the estimation of a letter a rate-limiting sleep separates  *)
(* every two consecutive probes, whatever the outcome of the first of the  *)
(* two, the first probe of the confirmation scan included.  A step of the  *)
(* increment search or of the confirmation scan issues a probe;            *)
(* pauses.probe tells what followed the probe before it.                   *)
(***************************************************************************)
ProbesSpaced ==
  [][(pc \in {"est_probe", "est_confirm"} /\ requested' # requested)
       => pauses.probe # "unslept"]_vars

(***************************************************************************)
(* C29: in the crawl loops every page fetch is followed by a               *)
(* rate-limiting sleep before the next page fetch is issued, whether the   *)
(* fetch succeeded, returned 404 or a too-small body, or failed after the  *)
(* retries.  A step that counts a processed URL issues a page fetch of the *)
(* adaptive crawl; pauses.page tells what followed the fetch before it.    *)
(***************************************************************************)
PageFetchesSpaced ==
  [][(pc = "adaptive_loop" /\ processed_count' # processed_count)
       => pauses.page # "unslept"]_vars

(***************************************************************************)
(* C30 as claimed: the adaptive frontier is depth-first within a letter:   *)
(* once the first page of a letter has been fetched, the offset pages      *)
(* discovered for it are fetched before the first page of any later        *)
(* letter.  No step fetches the first page of a letter while an offset     *)
(* page of an earlier letter, whose first page has been fetched, waits in  *)
(* the queue.                                                              *)
(***************************************************************************)
AdaptiveFetches == pc = "adaptive_loop" /\ processed_count' # processed_count

Fetched == CHOOSE u \in visited_urls' \ visited_urls : TRUE

DepthFirstWithinLetter ==
  [][(AdaptiveFetches /\ Fetched.letter \in LetterSet /\ Fetched.offset = NoOffset)
       => ~\E u \in Range(urls_to_visit) :
             /\ u.letter \in LetterSet
             /\ u.offset # NoOffset
             /\ LetterPos(u.letter) < LetterPos(Fetched.letter)
             /\ Url(u.letter, NoOffset) \in visited_urls]_vars

(***************************************************************************)
(* C30 amended: the adaptive frontier is first-in first-out throughout:    *)
(* every fetch takes the head of the queue, the URLs behind it keep their  *)
(* order and the discovered URLs are appended after them; so the main      *)
(* listing and the first pages of all the seeded letters are fetched       *)
(* before any URL discovered during the run.                               *)
(***************************************************************************)
SeedUrls == {BaseUrl} \cup {Url(l, NoOffset) : l \in LetterSet}

FrontierIsFifo ==
  [][AdaptiveFetches =>
       /\ Fetched = Head(urls_to_visit)
       /\ Len(urls_to_visit') >= Len(urls_to_visit) - 1
       /\ SubSeq(urls_to_visit', 1, Len(urls_to_visit) - 1) = Tail(urls_to_visit)
       /\ Fetched \notin SeedUrls => SeedUrls \subseteq visited_urls]_vars

FrontierIsFifoWitness ==
  /\ pc = "adaptive_loop"
  /\ SeedUrls \subseteq visited_urls
  /\ Url(Letters[1], PLAYERS_PER_PAGE) \in visited_urls
  /\ urls_to_visit # <<>>

(***************************************************************************)
(* C31: the next-page URL scrape_single_letter_complete follows always     *)
(* points at a strictly higher offset than the page just fetched (the      *)
(* first page counts as the lowest), so within a letter no URL is fetched  *)
(* twice and the fetched offsets increase strictly.                        *)
(***************************************************************************)
NextOffsetHigher ==
  [][(pc = "smart_page" /\ pc' = "smart_page")
       => /\ current_url'.offset > current_url.offset
          /\ \A u \in BagToSet(requested') : CopiesIn(u, requested') = 1]_vars

(***************************************************************************)
(* C32: max_pages_per_letter = 20 bounds the crawl of a letter: whatever   *)
(* pagination links the site returns, at most 20 URLs of one letter are    *)
(* fetched in a run of scrape_with_adaptive_strategy.                      *)
(***************************************************************************)
FetchedOf(l) == {u \in visited_urls : u.letter = l}

AtMostTwentyPerLetter == \A l \in LetterSet : Cardinality(FetchedOf(l)) <= 20

(***************************************************************************)
(* C33: scrape_with_adaptive_strategy terminates with an empty queue when  *)
(* every fetch returns and every page exposes finitely many pagination     *)
(* links <base>/<letter>?offset=n, even on a letter with unboundedly many  *)
(* offsets, each page adding a new nickname: the loop ends with the queue  *)
(* empty, and of an endless letter no more than max_pages_per_letter URLs  *)
(* are ever fetched.                                                       *)
(***************************************************************************)
AdaptiveTerminates ==
  /\ <>(pc = "done" /\ urls_to_visit = <<>>)
  /\ [](\A l \in endless : Cardinality(FetchedOf(l)) <= max_pages_per_letter)

AdaptiveTerminatesWitness ==
  /\ pc = "done"
  /\ urls_to_visit = <<>>
  /\ endless # {}
  /\ \A l \in endless :
       /\ Cardinality(FetchedOf(l)) = max_pages_per_letter
       /\ \A u \in FetchedOf(l) : FreshNames[PageOfOffset(u.offset)] \in player_nicknames

(***************************************************************************)
(* C34: scrape_all_players_smart terminates whatever the site answers, as  *)
(* long as each fetch returns.  A letter is fetched at most max_pages      *)
(* times; the letters are crawled one after the other in the order of the  *)
(* alphabet, each once, and every fetch is made for the letter being       *)
(* crawled: a run makes at most max_pages fetches for each letter of the   *)
(* alphabet, all fetches of a letter before the first of the next.         *)
(***************************************************************************)
OneLetterAtATime ==
  /\ (letter_index' # letter_index)
       => (pc = "smart_page" /\ pc' = "smart_letter" /\ letter_index' = letter_index + 1)
  /\ (pc = "smart_letter" /\ pc' = "smart_page")
       => (letter_index' = letter_index /\ requested' = EmptyBag)
  /\ (BagCardinality(requested') > BagCardinality(requested))
       => (pc = "smart_page" /\ requested' = requested (+) SetToBag({current_url}))

EnqueuesOnlyFromNewNames ==
  [][(pc = "adaptive_loop" /\ enqueued' # enqueued)
       => /\ AdaptiveFetches
          /\ pauses'.page = PagePause(TRUE)
          /\ player_nicknames \subseteq player_nicknames'
          /\ player_nicknames' # player_nicknames]_vars

EnqueuesOnlyFromNewNamesWitness ==
  /\ pc = "adaptive_loop"
  /\ failed = 1
  /\ player_nicknames # {}
  /\ BagCardinality(enqueued) > Cardinality(SeedUrls)
  /\ \E u \in BagToSet(enqueued) : u.offset # NoOffset /\ u \in visited_urls

(***************************************************************************)
(* C36: in scrape_single_letter_complete a page that yields nicknames, all *)
(* of them known already, ends the letter when it is the 4th page or a     *)
(* later one, whether or not it carries a next link; as one of pages 1-3   *)
(* it does not end the letter by itself: its next link is followed, and    *)
(* the letter ends there only for want of a next link.                     *)
(***************************************************************************)
SmartFetches == pc = "smart_page" /\ page_count' = page_count + 1

NoNewEndsFromFourth ==
  [][(SmartFetches /\ last_page'.kind = "names" /\ last_page'.added = 0)
       => /\ page_count' > 3 => pc' = "smart_letter"
          /\ (page_count' <= 3 /\ last_page'.next # NoUrl)
               => pc' = "smart_page" /\ current_url' = last_page'.next
          /\ pc' = "smart_letter" => (page_count' > 3 \/ last_page'.next = NoUrl)]_vars

NoNewEndsFromFourthWitness ==
  /\ pc = "smart_letter"
  /\ page_count = 4
  /\ BagCardinality(requested) = 4
  /\ last_page.kind = "names"
  /\ last_page.added = 0
  /\ last_page.next # NoUrl
  /\ lead_new = 1
  /\ trail_zero = 3
  /\ failed = 0

(***************************************************************************)
(* C37: after a page fetched successfully from which no nickname was       *)
(* extracted, scrape_single_letter_complete goes on to the next link       *)
(* exactly when the page was the 1st or the 2nd of the letter and carries  *)
(* a next link; an empty page at position 3 or later ends the letter, so   *)
(* as long as every page has been empty a letter is fetched at most 3      *)
(* times.                                                                  *)
(***************************************************************************)
EmptyPageRule ==
  /\ [][(SmartFetches /\ last_page'.kind = "empty")
          => /\ pc' = "smart_page" <=> (page_count' < 3 /\ last_page'.next # NoUrl)
             /\ pc' = "smart_page" => current_url' = last_page'.next
             /\ pc' # "smart_page" => pc' = "smart_letter"]_vars
  /\ []((pc \in {"smart_page", "smart_letter", "done"}
           /\ player_nicknames = {} /\ failed = 0) => page_count <= 3)

EmptyPageRuleWitness ==
  /\ pc = "smart_letter"
  /\ letter_index = 2
  /\ page_count = 3
  /\ BagCardinality(requested) = 3
  /\ player_nicknames = {}
  /\ failed = 0
  /\ last_page.kind = "empty"
  /\ last_page.next # NoUrl

====
